---- MODULE Spec2Model ----
(***************************************************************************)
(* Collection membership and the stoken cursor of the member listing of    *)
(* the Etebase server (etebase_server/fastapi/routers/member.py).          *)
(*                                                                         *)
(* The router's four endpoints (member_list, member_delete, member_patch,  *)
(* member_leave) are the actions.  The collaborators the router imports    *)
(* (stoken_handler, the django models, the collection dependencies) are    *)
(* modelled from the specification's contracts.                            *)
(***************************************************************************)
EXTENDS Integers, Sequences, FiniteSets, TLC

VARIABLES
    members,    \* the CollectionMember table: a set of rows
    nextId,     \* the next primary key of the CollectionMember table
    issued,     \* the Stoken table: the ids issued so far, in issuance order
    colStoken,  \* per collection: the stoken of its last membership revocation
    revoked,    \* history: <<user, collection>> revoked and not added again
    resp,       \* the last request and the response it received
    sync,       \* a client paging through member_list with its last iterator
    users,      \* the User table: the usernames as stored
    txn         \* the member_patch transactions: open, committed, aborted

vars == <<members, nextId, issued, colStoken, revoked, resp, sync, users, txn>>

----------------------------------------------------------------------------
\* Bounds of the model.

\* The number of stokens the ledger issues.
MaxStoken == 3
\* The largest limit a caller passes to member_list.
MaxLimit == 3
\* The configured cap on the page size.
LimitCap == 2

----------------------------------------------------------------------------
\* Users, collections, access levels.

Anonymous == "anonymous"
Users == {"alice", "bob", "carol", "dave"}
Callers == Users \cup {Anonymous}
Collections == {"c1", "c2"}

\* The owner of each collection.
OwnerOf == [c \in Collections |-> IF c = "c1" THEN "alice" ELSE "bob"]

\* The users that can be given a membership of a collection.
Candidates == [c \in Collections |->
    IF c = "c1" THEN {"bob", "carol", "dave"} ELSE {"carol"}]

ReadOnly == 0
ReadWrite == 1
Admin == 2
AccessLevels == {ReadOnly, ReadWrite, Admin}

\* Usernames as they arrive in a request path: any letter case, and "zed",
\* the username of no user.
RequestNames == {"BOB", "carol", "dave", "zed"}

\* str.lower() on the usernames of the model.
Lower(s) ==
    IF s \in {"BOB", "Bob"} THEN "bob" ELSE IF s = "Carol" THEN "carol" ELSE s

\* The username stored as it was typed.
normalize_username_as_typed(username) == username

\* User.normalize_username: the username a user is stored under.
normalize_username(username) == Lower(username)

----------------------------------------------------------------------------
\* The Stoken table.

Null == "null"

\* The opaque uid of the stoken with a given id.
UidTable == <<"s1", "s2", "s3", "s4", "s5", "s6", "s7", "s8">>
Uid(id) == UidTable[id]

\* The highest stoken id issued so far, 0 when none was.
Ledger == IF issued = <<>> THEN 0 ELSE issued[Len(issued)]

IssuedIds == {issued[i] : i \in 1..Len(issued)}

\* The iterators a caller can send: none, the uid of an issued stoken, or a
\* uid that no stoken has.
Iterators == {Null} \cup {Uid(n) : n \in 1..(Ledger + 1)}

\* Stoken.objects.create() handing out the highest id again.
StokenCreateReused == IF Ledger = 0 THEN 1 ELSE Ledger

\* Stoken.objects.create(): the id of the new row.
StokenCreate == Ledger + 1

\* get_stoken_obj: the stoken row of a uid; 0 for no iterator, -1 when no row
\* has the uid.
get_stoken_obj(uid) ==
    IF uid = Null THEN 0
    ELSE IF \E n \in IssuedIds : Uid(n) = uid
         THEN CHOOSE n \in IssuedIds : Uid(n) = uid
         ELSE -1

----------------------------------------------------------------------------
\* Access control: the dependencies of the routes.

\* get_queryset without the filter: the memberships of every collection.
get_queryset_unfiltered(collection) == members

\* get_queryset: the memberships of a collection.
get_queryset(collection) == {m \in members : m.collection = collection}

\* authorize(user, collection, requiredLevel): the caller is the owner of the
\* collection, or holds a membership of it at the required level or above.
authorize(user, collection, requiredLevel) ==
    \/ user = OwnerOf[collection]
    \/ \E m \in get_queryset(collection) :
          m.user = user /\ m.accessLevel >= requiredLevel

\* get_collection: the collection as the caller sees it; a caller with no
\* visibility of the collection does not find it.
get_collection(user, collection) == authorize(user, collection, ReadOnly)

\* verify_collection_admin: the "is collection admin" check in front of the
\* generic permission gate.
is_collection_admin(user, collection) == authorize(user, collection, Admin)

\* The dependencies of a route, in the order they are resolved: the
\* authenticated user, the collection, the admin check when the route has it,
\* and the generic permission gate.
Dependencies(caller, collection, needAdmin, requiredLevel) ==
    IF caller = Anonymous THEN "Unauthorized"
    ELSE IF ~get_collection(caller, collection) THEN "NotFound"
    ELSE IF needAdmin /\ ~is_collection_admin(caller, collection) THEN "Forbidden"
    ELSE IF ~authorize(caller, collection, requiredLevel) THEN "Forbidden"
    ELSE "ok"

\* member_list without Depends(verify_collection_admin).
member_list_dependencies_no_admin(caller, collection) ==
    Dependencies(caller, collection, FALSE, ReadOnly)

\* dependencies=[Depends(verify_collection_admin), *PERMISSIONS_READ]
member_list_dependencies(caller, collection) ==
    Dependencies(caller, collection, TRUE, ReadOnly)

\* dependencies=[Depends(verify_collection_admin), *PERMISSIONS_READWRITE]
member_delete_dependencies(caller, collection) ==
    Dependencies(caller, collection, TRUE, ReadWrite)

\* dependencies=[Depends(verify_collection_admin), *PERMISSIONS_READWRITE]
member_patch_dependencies(caller, collection) ==
    Dependencies(caller, collection, TRUE, ReadWrite)

\* member_leave behind Depends(verify_collection_admin), like the other routes.
member_leave_dependencies_admin(caller, collection) ==
    Dependencies(caller, collection, TRUE, ReadOnly)

\* dependencies=PERMISSIONS_READ
member_leave_dependencies(caller, collection) ==
    Dependencies(caller, collection, FALSE, ReadOnly)

\* get_member looking the user up first and the membership second, each with
\* its own 404.
get_member_two_lookups(username, collection) ==
    LET rows == {m \in get_queryset(collection) : Lower(m.user) = Lower(username)}
    IN  [rows |-> rows,
         outcome |-> IF Lower(username) \notin Users THEN "UserNotFound"
                     ELSE IF rows = {} THEN "NotFound" ELSE "ok"]

\* get_member: get_object_or_404(queryset, user__username__iexact=username);
\* one query over the memberships of the collection, 404 when no row matches.
get_member(username, collection) ==
    LET rows == {m \in get_queryset(collection) : Lower(m.user) = Lower(username)}
    IN  [rows |-> rows, outcome |-> IF rows = {} THEN "NotFound" ELSE "ok"]

----------------------------------------------------------------------------
\* The sync cursor protocol.

\* queryset.order_by("id")
RECURSIVE order_by_id(_)
order_by_id(queryset) ==
    IF queryset = {} THEN <<>>
    ELSE LET first == CHOOSE m \in queryset : \A o \in queryset : m.id <= o.id
         IN  <<first>> \o order_by_id(queryset \ {first})

\* The limit taken as the caller sent it.
ClampLimitMissing(limit) == limit

\* The limit the page is cut at: positive and not above the cap.
ClampLimit(limit) ==
    IF limit < 1 THEN 1 ELSE IF limit > LimitCap THEN LimitCap ELSE limit

\* The rows of an ordered queryset whose stoken is above the cursor.
filter_by_stoken(stoken_rev, ordered) ==
    SelectSeq(ordered, LAMBDA m : m.stoken > stoken_rev)

\* filter_by_stoken_and_limit: the page, the stoken of its last row (the
\* cursor's own stoken when the page is empty) and the completion flag.
filter_by_stoken_and_limit(iterator, limit, ordered) ==
    LET stoken_rev == get_stoken_obj(iterator)
        remaining  == filter_by_stoken(stoken_rev, ordered)
        size       == ClampLimit(limit)
        result     == SubSeq(remaining, 1,
                             IF Len(remaining) < size THEN Len(remaining) ELSE size)
    IN  [result         |-> result,
         new_stoken_obj |-> IF result = <<>> THEN stoken_rev
                            ELSE result[Len(result)].stoken,
         done           |-> Len(remaining) <= size]

\* CollectionMemberOut.from_orm
CollectionMemberOut(obj) ==
    [username |-> obj.user, accessLevel |-> obj.accessLevel]

\* member_list answering with the uid of the latest stoken of the table
\* instead of the one the page function returned.
new_stoken_uid_latest(new_stoken_obj) ==
    IF Ledger = 0 THEN Null ELSE Uid(Ledger)

\* new_stoken_obj and new_stoken_obj.uid
new_stoken_uid(new_stoken_obj) ==
    IF new_stoken_obj = 0 THEN Null ELSE Uid(new_stoken_obj)

----------------------------------------------------------------------------
\* Requests and responses.

Request(op, caller, collection) ==
    [op |-> op, caller |-> caller, collection |-> collection,
     username |-> Null, accessLevel |-> -1, iterator |-> Null, limit |-> 0,
     outcome |-> "ok", data |-> <<>>, newIterator |-> Null, done |-> FALSE]

NoRequest == Request("none", Anonymous, "c1")

\* member_list returning an iterator only with a page that has rows.
member_list_response_iterator_of_rows(req, page) ==
    [req EXCEPT
        !.data = [i \in 1..Len(page.result) |-> CollectionMemberOut(page.result[i])],
        !.newIterator = IF page.result = <<>> THEN Null
                        ELSE new_stoken_uid(page.new_stoken_obj),
        !.done = page.done]

\* member_list reporting done only with a page that has no rows.
member_list_response_done_when_empty(req, page) ==
    [req EXCEPT
        !.data = [i \in 1..Len(page.result) |-> CollectionMemberOut(page.result[i])],
        !.newIterator = new_stoken_uid(page.new_stoken_obj),
        !.done = (page.result = <<>>)]

\* member_list answering done with the flag of the page function negated.
member_list_response_done_negated(req, page) ==
    [req EXCEPT
        !.data = [i \in 1..Len(page.result) |-> CollectionMemberOut(page.result[i])],
        !.newIterator = new_stoken_uid(page.new_stoken_obj),
        !.done = ~page.done]

\* MemberListResponse(data=[...], iterator=new_stoken, done=done)
member_list_response(req, page) ==
    [req EXCEPT
        !.data = [i \in 1..Len(page.result) |-> CollectionMemberOut(page.result[i])],
        !.newIterator = new_stoken_uid(page.new_stoken_obj),
        !.done = page.done]

\* member_list: the response of GET /member/.
MemberListResponse(caller, collection, iterator, limit) ==
    LET req == [Request("list", caller, collection)
                   EXCEPT !.iterator = iterator, !.limit = limit]
        dep == member_list_dependencies(caller, collection)
        queryset == order_by_id(get_queryset(collection))
        page == filter_by_stoken_and_limit(iterator, limit, queryset)
    IN  IF dep # "ok" THEN [req EXCEPT !.outcome = dep]
        ELSE IF get_stoken_obj(iterator) < 0
             THEN [req EXCEPT !.outcome = "ValidationError"]
        ELSE member_list_response(req, page)

\* No member_patch transaction was started.
NoTxn == [open |-> {}, committed |-> <<>>, aborted |-> {}]

\* The usernames of a page of the member listing.
PageUsers(data) == {data[i].username : i \in 1..Len(data)}

NoSync == [active |-> FALSE, collection |-> "c1", init |-> Null,
           cursor |-> Null, limit |-> 1, got |-> <<>>, done |-> FALSE,
           base |-> {}, ledger |-> 0, seen |-> {}]

----------------------------------------------------------------------------
\* The state after construction: no membership, no stoken.

Init ==
    /\ members = {}
    /\ nextId = 1
    /\ issued = <<>>
    /\ colStoken = [c \in Collections |-> 0]
    /\ revoked = {}
    /\ resp = NoRequest
    /\ sync = NoSync
    /\ users = Users
    /\ txn = NoTxn

\* A user is given a membership of a collection (by its owner or an admin, or
\* by accepting an invitation); the new row is stamped with a fresh stoken.
AddMember(collection, user, accessLevel) ==
    /\ resp = NoRequest
    /\ user \in Candidates[collection]
    /\ user \in users
    /\ ~\E m \in get_queryset(collection) : m.user = user
    /\ Len(issued) < MaxStoken
    /\ members' = members \cup
          {[id |-> nextId, user |-> normalize_username(user),
            collection |-> collection, accessLevel |-> accessLevel,
            stoken |-> StokenCreate]}
    /\ nextId' = nextId + 1
    /\ issued' = Append(issued, StokenCreate)
    /\ revoked' = revoked \ {<<user, collection>>}
    /\ resp' = [Request("add", OwnerOf[collection], collection)
                   EXCEPT !.username = user, !.accessLevel = accessLevel]
    /\ UNCHANGED <<colStoken, sync, users, txn>>

\* GET /member/
member_list(caller, collection, iterator, limit) ==
    /\ resp = NoRequest
    /\ resp' = MemberListResponse(caller, collection, iterator, limit)
    /\ UNCHANGED <<members, nextId, issued, colStoken, revoked, sync, users, txn>>

\* CollectionMember.revoke: the row is deleted, no stoken is stamped on it,
\* and the stoken of the collection advances.
revoke(obj) ==
    /\ Len(issued) < MaxStoken
    /\ members' = members \ {obj}
    /\ issued' = Append(issued, StokenCreate)
    /\ colStoken' = [colStoken EXCEPT ![obj.collection] = StokenCreate]
    /\ UNCHANGED nextId

NoChange == UNCHANGED <<members, nextId, issued, colStoken, revoked>>

\* member_delete deleting the row itself, without the revocation of the model.
member_delete_revoke_plain_delete(obj) ==
    /\ members' = members \ {obj}
    /\ UNCHANGED <<nextId, issued, colStoken>>

\* obj.revoke()
member_delete_revoke(obj) == revoke(obj)

\* The member looked up before the dependencies of the route are decided.
route_outcome_lookup_first(dep, found) ==
    IF found.outcome # "ok" THEN found.outcome ELSE dep

\* The outcome of a route with a username in its path: the dependencies of the
\* route decorator are resolved first, the get_member parameter after them.
route_outcome(dep, found) ==
    IF dep # "ok" THEN dep ELSE found.outcome

\* DELETE /member/{username}/
member_delete(caller, collection, username) ==
    LET req == [Request("delete", caller, collection) EXCEPT !.username = username]
        dep == member_delete_dependencies(caller, collection)
        found == get_member(username, collection)
    IN  /\ resp = NoRequest
        /\ IF route_outcome(dep, found) # "ok"
              THEN resp' = [req EXCEPT !.outcome = route_outcome(dep, found)]
                   /\ NoChange
           ELSE /\ resp' = req
                /\ member_delete_revoke(CHOOSE obj \in found.rows : TRUE)
                /\ revoked' = revoked \cup {<<Lower(username), collection>>}
        /\ UNCHANGED <<sync, users, txn>>

\* member_patch without the comparison: every request stamps.
access_level_differs_always(instance, accessLevel) == TRUE

\* instance.accessLevel != data.accessLevel
access_level_differs(instance, accessLevel) ==
    instance.accessLevel # accessLevel

\* member_patch saving the new level without a new stoken.
stamp_access_level_only(instance, accessLevel, stoken) ==
    [instance EXCEPT !.accessLevel = accessLevel]

\* member_patch saving the new stoken with the level the row had.
stamp_stoken_only(instance, accessLevel, stoken) ==
    [instance EXCEPT !.stoken = stoken]

\* instance.stoken = Stoken.objects.create();
\* instance.accessLevel = data.accessLevel
stamp_access_level(instance, accessLevel, stoken) ==
    [instance EXCEPT !.stoken = stoken, !.accessLevel = accessLevel]

\* PATCH /member/{username}/
member_patch(caller, collection, username, accessLevel) ==
    LET req == [Request("patch", caller, collection)
                   EXCEPT !.username = username, !.accessLevel = accessLevel]
        dep == member_patch_dependencies(caller, collection)
        found == get_member(username, collection)
        instance == CHOOSE obj \in found.rows : TRUE
    IN  /\ resp = NoRequest
        /\ IF route_outcome(dep, found) # "ok"
              THEN resp' = [req EXCEPT !.outcome = route_outcome(dep, found)]
                   /\ NoChange
           ELSE IF access_level_differs(instance, accessLevel)
              THEN /\ Len(issued) < MaxStoken
                   /\ members' = (members \ {instance}) \cup
                         {stamp_access_level(instance, accessLevel, StokenCreate)}
                   /\ issued' = Append(issued, StokenCreate)
                   /\ resp' = req
                   /\ UNCHANGED <<nextId, colStoken, revoked>>
           ELSE resp' = req /\ NoChange
        /\ UNCHANGED <<sync, users, txn>>

\* member_leave taking a membership of the collection, whoever holds it.
own_membership_any_user(user, collection) == get_queryset(collection)

\* collection.members filtered by user=user
own_membership(user, collection) ==
    {m \in get_queryset(collection) : m.user = user}

\* POST /member/leave/
member_leave(caller, collection) ==
    LET req == Request("leave", caller, collection)
        dep == member_leave_dependencies(caller, collection)
        found == own_membership(caller, collection)
    IN  /\ resp = NoRequest
        /\ IF dep # "ok"
              THEN resp' = [req EXCEPT !.outcome = dep] /\ NoChange
           ELSE IF found = {}
              THEN resp' = [req EXCEPT !.outcome = "NotFound"] /\ NoChange
           ELSE /\ resp' = req
                /\ revoke(CHOOSE obj \in found : TRUE)
                /\ revoked' = revoked \cup {<<caller, collection>>}
        /\ UNCHANGED <<sync, users, txn>>

\* The client receives the response; the next request can be handled.
ClientReceives ==
    /\ resp # NoRequest
    /\ resp' = NoRequest
    /\ UNCHANGED <<members, nextId, issued, colStoken, revoked, sync, users, txn>>

\* The limits a caller passes: negative, zero, one, and one above the cap.
Limits == {-1, 0, 1, MaxLimit}

\* The collections the requests of Spec are about.
SpecCollections == {"c1"}

Next ==
    \/ \E c \in SpecCollections, u \in Users, l \in AccessLevels : AddMember(c, u, l)
    \/ \E caller \in Callers, c \in SpecCollections, it \in Iterators, n \in Limits :
          member_list(caller, c, it, n)
    \/ \E caller \in Callers, c \in SpecCollections, u \in RequestNames :
          member_delete(caller, c, u)
    \/ \E caller \in Callers, c \in SpecCollections, u \in RequestNames,
          l \in AccessLevels : member_patch(caller, c, u, l)
    \/ \E caller \in Callers, c \in SpecCollections : member_leave(caller, c)
    \/ ClientReceives

Spec == Init /\ [][Next]_vars

----------------------------------------------------------------------------
\* A client that pages through the member listing of a collection: it starts
\* from an iterator it holds and sends each request with the iterator of the
\* previous response, until a response says done.

\* The limits of a paging client.
SyncLimits == 1..MaxLimit

SyncStart(collection, iterator, limit) ==
    /\ resp = NoRequest
    /\ ~sync.active
    /\ get_stoken_obj(iterator) >= 0
    /\ sync' = [active |-> TRUE, collection |-> collection, init |-> iterator,
                cursor |-> iterator, limit |-> limit, got |-> <<>>,
                done |-> FALSE, base |-> get_queryset(collection),
                ledger |-> Ledger, seen |-> {}]
    /\ UNCHANGED <<members, nextId, issued, colStoken, revoked, resp, users, txn>>

SyncStep ==
    /\ resp = NoRequest
    /\ sync.active
    /\ ~sync.done
    /\ \E r \in {MemberListResponse(OwnerOf[sync.collection], sync.collection,
                                    sync.cursor, sync.limit)} :
          /\ resp' = r
          /\ sync' = [sync EXCEPT
                !.got = @ \o [i \in 1..Len(r.data) |-> r.data[i].username],
                !.cursor = r.newIterator,
                !.done = r.done,
                !.seen = @ \cup {<<m.user, m.stoken>> :
                                   m \in {o \in get_queryset(sync.collection) :
                                            o.user \in PageUsers(r.data)}}]
    /\ UNCHANGED <<members, nextId, issued, colStoken, revoked, users, txn>>

NextSync ==
    \/ \E c \in SpecCollections, u \in Users, l \in AccessLevels : AddMember(c, u, l)
    \/ \E c \in SpecCollections, u \in Users, l \in AccessLevels :
          u \in Candidates[c] /\ member_patch(OwnerOf[c], c, u, l)
    \/ \E c \in SpecCollections, u \in Users :
          u \in Candidates[c] /\ member_delete(OwnerOf[c], c, u)
    \/ \E c \in SpecCollections, it \in Iterators, n \in SyncLimits :
          SyncStart(c, it, n)
    \/ SyncStep
    \/ ClientReceives

SpecSync == Init /\ [][NextSync]_vars

----------------------------------------------------------------------------
\* The rows of the base set a paging client is owed: its stoken is above the
\* initial iterator.
SyncOwed == {m \in sync.base : m.stoken > get_stoken_obj(sync.init)}

\* How many times a username was returned to the paging client.
SyncCount(username) ==
    Cardinality({i \in 1..Len(sync.got) : sync.got[i] = username})

\* The paging client has finished and no membership was added, changed or
\* revoked since it started (each of these issues a stoken).
SyncFinishedOnBase ==
    /\ sync.active
    /\ sync.done
    /\ Ledger = sync.ledger

\* C1 - cursor completeness: a client that pages over an unchanged set of
\* memberships until done has received exactly the rows whose stoken is above
\* its initial iterator, each once.
C1_CursorCompleteness ==
    SyncFinishedOnBase =>
        /\ \A m \in SyncOwed : SyncCount(m.user) = 1
        /\ \A i \in 1..Len(sync.got) : \E m \in SyncOwed : m.user = sync.got[i]

----------------------------------------------------------------------------
\* Two collections that share a user: the membership operations of owners and
\* of every caller's leave, over c1 and c2.

NextShared ==
    \/ \E c \in Collections, u \in Users, l \in AccessLevels : AddMember(c, u, l)
    \/ \E c \in Collections, u \in RequestNames, l \in AccessLevels :
          member_patch(OwnerOf[c], c, u, l)
    \/ \E c \in Collections, u \in RequestNames : member_delete(OwnerOf[c], c, u)
    \/ \E caller \in Callers, c \in Collections : member_leave(caller, c)
    \/ ClientReceives

SpecShared == Init /\ [][NextShared]_vars

----------------------------------------------------------------------------
\* The user table filling up: users are created under the names people type,
\* and memberships are given to the users that exist.

\* The usernames people sign up with.
SignupNames == {"bob", "BOB", "Bob", "carol", "Carol", "dave"}

\* No user yet, no membership, no stoken.
InitUsers ==
    /\ members = {}
    /\ nextId = 1
    /\ issued = <<>>
    /\ colStoken = [c \in Collections |-> 0]
    /\ revoked = {}
    /\ resp = NoRequest
    /\ sync = NoSync
    /\ users = {}
    /\ txn = NoTxn

\* UserManager.create_user: the username is normalized and the row inserted;
\* the unique username column refuses a name that is already stored.
create_user(username) ==
    LET req == [Request("create_user", Anonymous, "c1") EXCEPT !.username = username]
        stored == normalize_username(username)
    IN  /\ resp = NoRequest
        /\ IF stored \in users
              THEN /\ resp' = [req EXCEPT !.outcome = "IntegrityError"]
                   /\ users' = users
              ELSE /\ resp' = req
                   /\ users' = users \cup {stored}
        /\ UNCHANGED <<members, nextId, issued, colStoken, revoked, sync, txn>>

NextUsers ==
    \/ \E u \in SignupNames : create_user(u)
    \/ \E c \in Collections, u \in Users, l \in {ReadOnly, Admin} : AddMember(c, u, l)
    \/ \E c \in Collections, u \in SignupNames : member_delete(OwnerOf[c], c, u)
    \/ ClientReceives

SpecUsers == InitUsers /\ [][NextUsers]_vars

----------------------------------------------------------------------------
\* member_patch requests handled by workers at the same time. Each runs its
\* transaction.atomic() block in steps: the stoken is created inside the
\* transaction and takes the next id of the table's sequence at once; the
\* stamped row becomes visible to the other requests when the transaction
\* commits, and never if it aborts. Listings read the committed rows.

\* How many member_patch transactions are started.
MaxTxn == 2

\* The memberships the transactions start from: bob and then carol were added
\* to c1.
TxnRows ==
    {[id |-> 1, user |-> "bob", collection |-> "c1",
      accessLevel |-> ReadWrite, stoken |-> 1],
     [id |-> 2, user |-> "carol", collection |-> "c1",
      accessLevel |-> ReadOnly, stoken |-> 2]}

InitTxn ==
    /\ members = TxnRows
    /\ nextId = 3
    /\ issued = <<1, 2>>
    /\ colStoken = [c \in Collections |-> 0]
    /\ revoked = {}
    /\ resp = NoRequest
    /\ sync = NoSync
    /\ users = Users
    /\ txn = NoTxn

\* The transactions started so far.
TxnCount ==
    Cardinality(txn.open) + Len(txn.committed) + Cardinality(txn.aborted)

\* member_patch up to Stoken.objects.create(): the dependencies, the instance
\* get_member loaded, the comparison, and the stoken created inside the
\* transaction.
patch_begin(caller, collection, username, accessLevel) ==
    LET dep == member_patch_dependencies(caller, collection)
        found == get_member(username, collection)
        instance == CHOOSE obj \in found.rows : TRUE
    IN  /\ TxnCount < MaxTxn
        /\ route_outcome(dep, found) = "ok"
        /\ access_level_differs(instance, accessLevel)
        /\ issued' = Append(issued, StokenCreate)
        /\ txn' = [txn EXCEPT !.open = @ \cup
                      {[instance |-> instance, accessLevel |-> accessLevel,
                        stoken |-> StokenCreate]}]
        /\ UNCHANGED <<members, nextId, colStoken, revoked, resp, sync, users>>

\* instance.save() and the end of the transaction.atomic() block: the row with
\* the id of the instance is written with the fields of the instance.
patch_commit(t) ==
    /\ t \in txn.open
    /\ members' = {m \in members : m.id # t.instance.id} \cup
                     {stamp_access_level(t.instance, t.accessLevel, t.stoken)}
    /\ txn' = [txn EXCEPT !.open = @ \ {t}, !.committed = Append(@, t)]
    /\ UNCHANGED <<nextId, issued, colStoken, revoked, resp, sync, users>>

\* The transaction.atomic() block left by an exception: nothing is written.
patch_abort(t) ==
    /\ t \in txn.open
    /\ txn' = [txn EXCEPT !.open = @ \ {t}, !.aborted = @ \cup {t}]
    /\ UNCHANGED <<members, nextId, issued, colStoken, revoked, resp, sync, users>>

\* The usernames of the member_patch requests.
TxnNames == {"BOB", "carol"}

\* The iterators a paging client can hold: none, or one of a committed row.
RowIterators(collection) ==
    {Null} \cup {Uid(m.stoken) : m \in get_queryset(collection)}

\* The transactions and a paging client whose limit is the largest page.
NextTxn ==
    \/ \E u \in TxnNames, l \in AccessLevels : patch_begin(OwnerOf["c1"], "c1", u, l)
    \/ \E t \in txn.open : patch_commit(t)
    \/ \E t \in txn.open : patch_abort(t)
    \/ \E it \in RowIterators("c1") : SyncStart("c1", it, LimitCap)
    \/ SyncStep
    \/ ClientReceives

SpecTxn == InitTxn /\ [][NextTxn]_vars

\* A paging client of any limit, and member_patch requests handled between
\* its requests.
NextPaging ==
    \/ \E u \in TxnNames, l \in AccessLevels : member_patch(OwnerOf["c1"], "c1", u, l)
    \/ \E it \in RowIterators("c1"), n \in SyncLimits : SyncStart("c1", it, n)
    \/ SyncStep
    \/ ClientReceives

\* Every response is received, and the client sends its next request for as
\* long as it is not done: its request is handled by a worker of its own,
\* however many requests of others are handled in between.
SpecPaging ==
    /\ InitTxn
    /\ [][NextPaging]_vars
    /\ SF_vars(SyncStep)
    /\ WF_vars(ClientReceives)

----------------------------------------------------------------------------
\* Properties of the membership operations, checked under Spec (C9 under
\* SpecShared).

\* The membership rows of a user in a collection.
RowsOf(user, collection) ==
    {m \in members : m.collection = collection /\ m.user = user}

\* The caller is the owner of the collection or holds an Admin membership.
AdminOrOwner(caller, collection) ==
    \/ caller = OwnerOf[collection]
    \/ \E m \in RowsOf(caller, collection) : m.accessLevel = Admin

\* C2 - stoken monotonicity: every issued stoken is greater than every stoken
\* issued before it (so none is issued twice), and every stoken stamped on a
\* membership is one the ledger issued.
C2_StokenMonotonic ==
    /\ \A i, j \in 1..Len(issued) : i < j => issued[i] < issued[j]
    /\ \A m \in members : m.stoken \in IssuedIds

\* C2 happens: setAccessLevel issued a stoken after an earlier issuance.
C2_Witness ==
    /\ resp.op = "patch"
    /\ resp.outcome = "ok"
    /\ Len(issued) >= 2
    /\ \E m \in members : m.user = Lower(resp.username) /\ m.stoken = Ledger

\* C3 - revocation removes access: while a user revoked from a collection (by
\* an admin's remove or by leaving) has not been added again, the user is not
\* authorized at ReadOnly and no member listing of the collection, whatever
\* its iterator and limit, returns the user.
C3_RevocationRemovesAccess ==
    \A p \in revoked :
        /\ ~authorize(p[1], p[2], ReadOnly)
        /\ \A it \in Iterators, n \in Limits :
              p[1] \notin PageUsers(MemberListResponse(OwnerOf[p[2]], p[2], it, n).data)
        /\ (resp.op = "list" /\ resp.collection = p[2])
              => p[1] \notin PageUsers(resp.data)

\* C3 happens: after a revocation the collection was listed and the listing
\* returned the members that remain.
C3_Witness ==
    /\ revoked # {}
    /\ resp.op = "list"
    /\ resp.outcome = "ok"
    /\ resp.data # <<>>
    /\ \E p \in revoked : p[2] = resp.collection

\* C4 - no-op idempotence: a change-access-level request of an admin that
\* names the member's current level succeeds, changes no membership (stoken
\* and level stay) and issues no stoken; so does every repetition of it.
C4_NoOpIdempotence ==
    [][(/\ resp'.op = "patch"
        /\ AdminOrOwner(resp'.caller, resp'.collection)
        /\ \E m \in RowsOf(Lower(resp'.username), resp'.collection) :
              m.accessLevel = resp'.accessLevel)
       => (/\ resp'.outcome = "ok"
           /\ members' = members
           /\ issued' = issued)]_vars

\* C4 happens: a change-access-level request succeeded on a member whose level
\* is the requested one and whose stoken is not the last one issued.
C4_Witness ==
    /\ resp.op = "patch"
    /\ resp.outcome = "ok"
    /\ \E m \in RowsOf(Lower(resp.username), resp.collection) :
          m.accessLevel = resp.accessLevel /\ m.stoken < Ledger

\* C5 - privacy-preserving not-found: for an admin caller,
\* change-access-level and remove of a username with no membership in the
\* collection answer NotFound, the same for the username of no user and for
\* the username of a user who is not a member, and change nothing.
C5_PrivateNotFound ==
    [][(/\ resp'.op \in {"patch", "delete"}
        /\ AdminOrOwner(resp'.caller, resp'.collection)
        /\ RowsOf(Lower(resp'.username), resp'.collection) = {})
       => (/\ resp'.outcome = "NotFound"
           /\ UNCHANGED <<members, nextId, issued, colStoken, revoked>>)]_vars

\* C5 happens: an admin got NotFound both ways: here for the username of a
\* user who exists and is not a member, in a collection that has members.
C5_Witness ==
    /\ resp.op \in {"patch", "delete"}
    /\ resp.outcome = "NotFound"
    /\ AdminOrOwner(resp.caller, resp.collection)
    /\ Lower(resp.username) \in Users
    /\ get_queryset(resp.collection) # {}

\* C6 - cursor non-regression: a member listing called with an iterator
\* returns an iterator, and its stoken is not below the one passed in.
C6_CursorNonRegression ==
    (resp.op = "list" /\ resp.outcome = "ok" /\ resp.iterator # Null)
    => /\ resp.newIterator # Null
       /\ get_stoken_obj(resp.newIterator) >= get_stoken_obj(resp.iterator)

\* C6 happens: a listing with an iterator returned rows and a later iterator.
C6_Witness ==
    /\ resp.op = "list"
    /\ resp.outcome = "ok"
    /\ resp.iterator # Null
    /\ resp.data # <<>>
    /\ get_stoken_obj(resp.newIterator) > get_stoken_obj(resp.iterator)

\* A step of a successful change-access-level to a different level.
C7_LevelChanges ==
    /\ resp'.op = "patch"
    /\ resp'.outcome = "ok"
    /\ \E m \in RowsOf(Lower(resp'.username), resp'.collection) :
          m.accessLevel # resp'.accessLevel

\* The state after the step, before being the highest stoken issued before it.
C7_AfterChange(before) ==
    \E m \in RowsOf(Lower(resp.username), resp.collection)' :
        /\ m.stoken > before
        /\ m.stoken \in IssuedIds'
        /\ m.accessLevel = resp'.accessLevel
        /\ \A n \in Limits :
              MemberListResponse(OwnerOf[resp.collection], resp.collection,
                                 Uid(before), n)'
              = [Request("list", OwnerOf[resp'.collection], resp'.collection)
                    EXCEPT !.iterator = Uid(before),
                           !.limit = n,
                           !.outcome = "ok",
                           !.data = <<[username |-> m.user,
                                       accessLevel |-> resp'.accessLevel]>>,
                           !.newIterator = Uid(m.stoken),
                           !.done = TRUE]

\* C7 - a level change is visible to incremental sync: a successful
\* change-access-level to a different level stamps the member with a stoken
\* above every stoken issued before and stores the new level, and a listing
\* from the highest stoken issued before the call then returns exactly that
\* member, with done.
C7_LevelChangeVisible ==
    [][C7_LevelChanges => (\A before \in {Ledger} : C7_AfterChange(before))]_vars

\* C7 happens: a member of a collection with other members was given a new
\* level and carries the last stoken issued.
C7_Witness ==
    /\ resp.op = "patch"
    /\ resp.outcome = "ok"
    /\ Cardinality(get_queryset(resp.collection)) >= 2
    /\ \E m \in RowsOf(Lower(resp.username), resp.collection) :
          m.accessLevel = resp.accessLevel /\ m.stoken = Ledger

\* C8 - admin-only gate: list, change-access-level and remove answer a caller
\* who is neither an Admin member nor the owner of the collection with an
\* error, no member list, and no change to any membership.
C8_AdminOnlyGate ==
    [][(/\ resp'.op \in {"list", "patch", "delete"}
        /\ ~AdminOrOwner(resp'.caller, resp'.collection))
       => (/\ resp'.outcome # "ok"
           /\ resp'.data = <<>>
           /\ members' = members)]_vars

\* C8 happens: a ReadWrite member asked for the member list of a collection
\* that has members and was refused.
C8_Witness ==
    /\ resp.op = "list"
    /\ resp.outcome = "Forbidden"
    /\ \E m \in RowsOf(resp.caller, resp.collection) : m.accessLevel = ReadWrite

\* C9 - leave is open to every member: leave by a caller who holds a
\* membership of the collection, at any level, succeeds and deletes that
\* membership and no other (of this or of another collection); leave by an
\* authenticated caller with no membership answers NotFound and deletes
\* nothing.
C9_LeaveOpenToMembers ==
    [][(resp'.op = "leave" /\ resp'.caller # Anonymous)
       => IF RowsOf(resp'.caller, resp'.collection) # {}
          THEN /\ resp'.outcome = "ok"
               /\ members' = members \ RowsOf(resp'.caller, resp'.collection)
          ELSE /\ resp'.outcome = "NotFound"
               /\ members' = members]_vars

\* C9 happens: a user left a collection, holds no membership of it any more
\* and still holds the membership of the other collection.
C9_Witness ==
    /\ resp.op = "leave"
    /\ resp.outcome = "ok"
    /\ <<resp.caller, resp.collection>> \in revoked
    /\ RowsOf(resp.caller, resp.collection) = {}
    /\ \E c \in Collections \ {resp.collection} : RowsOf(resp.caller, c) # {}

----------------------------------------------------------------------------
\* The rows of the collection of a listing whose stoken is above the iterator
\* of the request, in the state the listing was answered in.
RowsAboveCursor(req) ==
    {m \in get_queryset(req.collection) : m.stoken > get_stoken_obj(req.iterator)}

\* A listing that was answered with a page.
ListAnswered(req) == req.op = "list" /\ req.outcome = "ok"

C12_NewCursorRule ==
    ListAnswered(resp)
    => /\ resp.data # <<>> =>
             \E m \in get_queryset(resp.collection) :
                /\ m.user = resp.data[Len(resp.data)].username
                /\ resp.newIterator = Uid(m.stoken)
       /\ RowsAboveCursor(resp) = {} =>
             /\ resp.data = <<>>
             /\ resp.done
             /\ resp.newIterator = resp.iterator

\* C12 happens: a listing from a cursor with no row above it, although the
\* collection has rows and a later stoken was issued.
C12_Witness ==
    /\ ListAnswered(resp)
    /\ resp.iterator # Null
    /\ get_queryset(resp.collection) # {}
    /\ RowsAboveCursor(resp) = {}
    /\ get_stoken_obj(resp.iterator) < Ledger
    /\ resp.newIterator = resp.iterator

\* The user whose membership a successful removal or leave revokes.
RevokedUser(req) ==
    IF req.op = "delete" THEN Lower(req.username) ELSE req.caller

\* C13 - revocation observable through the collection's stoken: every
\* successful removal or leave deletes the row, stamps the new stoken on no
\* row, and moves the stoken of the collection above every stoken issued
\* before.
C13_RevocationAdvancesCollection ==
    [][(resp'.op \in {"delete", "leave"} /\ resp'.outcome = "ok")
       => (/\ RowsOf(RevokedUser(resp'), resp'.collection) # {}
           /\ members' = members \ RowsOf(RevokedUser(resp'), resp'.collection)
           /\ \A i \in 1..Len(issued) : colStoken'[resp'.collection] > issued[i]
           /\ colStoken'[resp'.collection] > colStoken[resp'.collection]
           /\ \A m \in members' : m.stoken # colStoken'[resp'.collection]
           /\ \A c \in Collections \ {resp'.collection} :
                 colStoken'[c] = colStoken[c])]_vars

\* C13 happens: an admin removed a member while another row stays, and the
\* stoken of the collection is the latest one issued, above the stoken of
\* every row left.
C13_Witness ==
    /\ resp.op = "delete"
    /\ resp.outcome = "ok"
    /\ members # {}
    /\ colStoken[resp.collection] = Ledger
    /\ \A m \in members : m.stoken < colStoken[resp.collection]

\* C19 - frame of setAccessLevel: a change-access-level request creates and
\* deletes no row, leaves every row but the target's row in the collection of
\* the request as it was (the target user's rows in other collections
\* included), and keeps the id, user and collection of the target's row.
C19_PatchFrame ==
    [][(resp'.op = "patch")
       => (/\ Cardinality(members') = Cardinality(members)
           /\ {m.id : m \in members'} = {m.id : m \in members}
           /\ \A m \in members :
                 (m.collection # resp'.collection \/ m.user # Lower(resp'.username))
                 => m \in members'
           /\ \A m \in members : \A n \in members' :
                 n.id = m.id => (n.user = m.user /\ n.collection = m.collection)
           /\ nextId' = nextId
           /\ colStoken' = colStoken)]_vars

\* C19 happens: the level of a user who is a member of both collections was
\* changed in one of them; the row there carries the latest stoken and the
\* user's row in the other collection is still there.
C19_Witness ==
    /\ resp.op = "patch"
    /\ resp.outcome = "ok"
    /\ \E m \in RowsOf(Lower(resp.username), resp.collection) :
          /\ m.stoken = Ledger
          /\ m.accessLevel = resp.accessLevel
    /\ \E c \in Collections \ {resp.collection} :
          RowsOf(Lower(resp.username), c) # {}

\* The outcome of a change-access-level request in the current state.
PatchOutcome(caller, collection, username) ==
    route_outcome(member_patch_dependencies(caller, collection),
                  get_member(username, collection))

\* The outcome of a remove request in the current state.
DeleteOutcome(caller, collection, username) ==
    route_outcome(member_delete_dependencies(caller, collection),
                  get_member(username, collection))

\* The step changes whether the user is a member of the collection, and no
\* other membership.
OnlyMembershipDiffers(user, collection) ==
    /\ (RowsOf(user, collection) = {}) # (RowsOf(user, collection)' = {})
    /\ members \ RowsOf(user, collection) = members' \ RowsOf(user, collection)'

\* The caller is no admin of the collection before and after the step.
NotAdminAcross(caller, collection) ==
    /\ ~AdminOrOwner(caller, collection)
    /\ ~AdminOrOwner(caller, collection)'

\* A step answers a change-access-level or remove request of a caller who is
\* no admin with the outcome the route has in the state before it, which is
\* a refusal.
RefusalAnswered ==
    (resp'.op \in {"patch", "delete"} /\ ~AdminOrOwner(resp'.caller, resp'.collection))
    => /\ resp'.outcome \in {"Unauthorized", "NotFound", "Forbidden"}
       /\ resp'.outcome = IF resp'.op = "patch"
                             THEN PatchOutcome(resp'.caller, resp'.collection,
                                               resp'.username)
                             ELSE DeleteOutcome(resp'.caller, resp'.collection,
                                                resp'.username)
       /\ members' = members

\* C20 as stated - no membership probing: for a caller who is no admin, the
\* outcome of change-access-level and of remove for a username is the same in
\* two states that differ only in whether that username is a member.
C20_NoProbingAnyTarget ==
    [][\A caller \in Callers, u \in RequestNames, c \in SpecCollections :
          (OnlyMembershipDiffers(Lower(u), c) /\ NotAdminAcross(caller, c))
          => (/\ PatchOutcome(caller, c, u)' = PatchOutcome(caller, c, u)
              /\ DeleteOutcome(caller, c, u)' = DeleteOutcome(caller, c, u))]_vars

\* C20 - no membership probing by non-admins: for a caller who is no admin,
\* the outcome of change-access-level and of remove for the username of
\* another user is the same in two states that differ only in whether that
\* user is a member, and the requests are answered with that refusal.
C20_NoProbing ==
    [][/\ RefusalAnswered
       /\ \A caller \in Callers, u \in RequestNames, c \in SpecCollections :
             (/\ OnlyMembershipDiffers(Lower(u), c)
              /\ NotAdminAcross(caller, c)
              /\ Lower(u) # caller)
             => (/\ PatchOutcome(caller, c, u)' = PatchOutcome(caller, c, u)
                 /\ DeleteOutcome(caller, c, u)' = DeleteOutcome(caller, c, u))]_vars

\* C20 happens: a member below Admin asked to change the level of another
\* user who is a member and was refused as forbidden, as it is for a username
\* that is no member.
C20_Witness ==
    /\ resp.op = "patch"
    /\ resp.outcome = "Forbidden"
    /\ RowsOf(resp.caller, resp.collection) # {}
    /\ Lower(resp.username) # resp.caller
    /\ RowsOf(Lower(resp.username), resp.collection) # {}
    /\ PatchOutcome(resp.caller, resp.collection, "zed") = "Forbidden"

\* C18 - member lookup by username is unambiguous: no two users have
\* usernames that are equal ignoring case, no user has more than one
\* membership of a collection, every membership is of a stored user, and the
\* case-insensitive lookup matches at most one row of a collection whatever
\* the case of the username in the request.
C18_LookupUnambiguous ==
    /\ \A a, b \in users : Lower(a) = Lower(b) => a = b
    /\ \A m \in members : m.user \in users
    /\ \A m, n \in members :
          (m.user = n.user /\ m.collection = n.collection) => m = n
    /\ \A u \in SignupNames \cup RequestNames, c \in Collections :
          Cardinality(get_member(u, c).rows) <= 1

\* C18 happens: a sign-up under a second spelling of a stored username was
\* refused while that user holds a membership, and the lookup under a third
\* spelling finds that one row.
C18_Witness ==
    /\ resp.op = "create_user"
    /\ resp.outcome = "IntegrityError"
    /\ resp.username = "BOB"
    /\ "bob" \in users
    /\ RowsOf("bob", "c1") # {}
    /\ get_member("Bob", "c1").rows = RowsOf("bob", "c1")

----------------------------------------------------------------------------
\* The claims about member_patch transactions that run at the same time.

\* C14 - no committed mutation is missed: a committed row whose stoken is
\* above the iterator the paging client started from and not above the
\* iterator it holds now was returned to the client with that stoken.
C14_NoCommittedMutationMissed ==
    sync.active =>
        \A m \in get_queryset(sync.collection) :
            (/\ m.stoken > get_stoken_obj(sync.init)
             /\ m.stoken <= get_stoken_obj(sync.cursor))
            => <<m.user, m.stoken>> \in sync.seen

\* C15 - stoken order agrees with commit order: of two transactions on
\* different rows, the one that committed first stamped the smaller stoken.
C15_StokenOrderIsCommitOrder ==
    \A i, j \in 1..Len(txn.committed) :
        (i < j /\ txn.committed[i].instance.id # txn.committed[j].instance.id)
        => txn.committed[i].stoken < txn.committed[j].stoken

\* Every row is as it was at the start, or carries the stoken and the level
\* of one committed transaction together; the stoken of a transaction that
\* is open or was aborted is on no row.
C16_RowsWhole ==
    /\ \A m \in members :
          \/ m \in TxnRows
          \/ \E i \in 1..Len(txn.committed) :
                /\ m.id = txn.committed[i].instance.id
                /\ m.stoken = txn.committed[i].stoken
                /\ m.accessLevel = txn.committed[i].accessLevel
    /\ \A t \in txn.open \cup txn.aborted :
          \A m \in members : m.stoken # t.stoken

\* C16 - atomic stamping: the rows the other requests see never carry the new
\* stoken with the old level or the old stoken with the new level; a step
\* that starts or aborts a transaction changes no row, and a minted stoken
\* is on no row before its transaction commits or after it aborts.
C16_AtomicStamping ==
    [][/\ C16_RowsWhole'
       /\ (txn'.aborted # txn.aborted \/ txn'.committed = txn.committed)
          => members' = members]_vars

\* C16 happens: one transaction committed and its row carries its stoken and
\* level, another one on the other row was aborted and that row is as it was.
C16_Witness ==
    /\ Len(txn.committed) = 1
    /\ \E m \in members :
          /\ m.stoken = txn.committed[1].stoken
          /\ m.accessLevel = txn.committed[1].accessLevel
          /\ m.accessLevel # txn.committed[1].instance.accessLevel
    /\ \E t \in txn.aborted :
          /\ t.instance.id # txn.committed[1].instance.id
          /\ t.instance \in members

\* C17 - pagination terminates under concurrent stamping: a client that
\* keeps passing the iterator of the previous response reaches a response
\* that says done, while finitely many member_patch requests re-stamp rows
\* between its requests.
C17_PaginationTerminates == sync.active ~> sync.done

\* C17 happens: the client was told done after pages that were cut at its
\* limit, and one of them returned a row that was re-stamped after the
\* client started.
C17_Witness ==
    /\ sync.active
    /\ sync.done
    /\ sync.limit = 1
    /\ Len(sync.got) > 1
    /\ \E m \in get_queryset(sync.collection) :
          /\ m.stoken > sync.ledger
          /\ <<m.user, m.stoken>> \in sync.seen

====
